---- MODULE Spec2Model ----
(***************************************************************************)
(* Inside algorithms of the tree CRFs in supar/modules/treecrf.py and the  *)
(* diagonal-stripe accessor of supar/utils/fn.py.                          *)
(*                                                                         *)
(* Log-scores are carried in the exponential domain: a log-score x is      *)
(* represented by the natural number exp(x).  Under this representation    *)
(*     -inf  is 0,   the log-score 0 is 1,                                 *)
(*     a + b  is the product,   logsumexp  is the sum,                     *)
(* so a table entry is the total weight of the derivations it aggregates   *)
(* and, with all weights 1, their number.  Floating-point rounding is not  *)
(* modelled.                                                               *)
(***************************************************************************)
EXTENDS Integers, Sequences, FiniteSets, TLC

VARIABLES
    crf,        \* which module's inside is running
    scores,     \* caller's arc scores [b][d][h] (dependent d, head h)
    s_sib,      \* caller's sibling scores [b][d][h][s] (second order)
    mask,       \* [b][p]: TRUE for the words 1..L of sentence b
    cands,      \* "None" or [b][p]: the cands argument of inside
    pc,         \* "loop" while the width loop runs, "done" after return
    w,          \* the loop variable of the width loop
    arc,        \* inside's local (permuted, masked) scores [h][d][b]
    s_i,        \* incomplete-span table [h][d][b]
    s_s,        \* sibling-span table (second order)
    s_c,        \* complete-span table [h][d][b]
    s,          \* constituency chart [i][j][b]
    x_shape,    \* stripe's table: <<seq_len, numel>> of its shape [seq_len, seq_len, numel]
    x_stride,   \* its strides
    mem,        \* storages: "x" is the table's, "copy" the one x.contiguous() allocates
    st_args,    \* the arguments of the stripe call
    view,       \* the storage the returned stripe refers to
    ret,        \* the returned stripe, read when it is returned
    op,         \* the write that followed the call
    target,     \* forward's target argument, or None
    f_mbr,      \* forward's mbr argument: "default" when left out, "true", "false"
    f_partial,  \* forward's partial argument, likewise
    requires_grad,  \* scores.requires_grad, a flag of the caller's tensor
    results     \* what each forward call so far returned

insideVars == <<crf, scores, s_sib, mask, cands, pc, w, arc, s_i, s_s, s_c, s>>

-----------------------------------------------------------------------------
(* Bounds and shapes                                                       *)

MaxLen == 3                     \* longest sentence
seq_len == MaxLen + 1           \* scores.shape[1]: pseudo-root 0 and MaxLen words
Pos == 0 .. seq_len - 1
Batch == {0, 1}                 \* batch indices; batch_size = 2
NegInf == 0                     \* exp(float('-inf'))
One == 1                        \* exp(0)
None == << >>                     \* an argument left at None

-----------------------------------------------------------------------------
(* Tensor primitives                                                       *)

RECURSIVE SumTo(_, _)
SumTo(f, k) == IF k < 0 THEN 0 ELSE f[k] + SumTo(f, k - 1)

\* x.sum() over the index set S, in the two domains
RECURSIVE Product(_, _)
Product(f, S) == IF S = {} THEN 1 ELSE LET x == CHOOSE y \in S : TRUE
                                       IN  f[x] * Product(f, S \ {x})

RECURSIVE SumOver(_, _)
SumOver(f, S) == IF S = {} THEN 0 ELSE LET x == CHOOSE y \in S : TRUE
                                       IN  f[x] + SumOver(f, S \ {x})

\* x.logsumexp(-1) of a vector indexed 0..w-1
logsumexp(f, width) == SumTo(f, width - 1)

\* element p of the row-major buffer x.contiguous() of a tensor of shape
\* [s0, s1, numel]
contiguousAt(x, p) ==
    LET s1 == Cardinality(DOMAIN x[0])
        nb == Cardinality(DOMAIN x[0][0])
    IN  x[p \div (s1 * nb)][(p \div nb) % s1][p % nb]

\* x.contiguous() as a buffer
contiguous(x) ==
    LET s0 == Cardinality(DOMAIN x)
        s1 == Cardinality(DOMAIN x[0])
        nb == Cardinality(DOMAIN x[0][0])
    IN  [p \in 0 .. s0 * s1 * nb - 1 |-> contiguousAt(x, p)]

\* stripeOffset with the row stride of the table instead of the diagonal's
stripeOffsetRowStride(size1, numel, offset, dim, r, k, b) ==
    (offset[1] * size1 + offset[2]) * numel + r * size1 * numel
        + k * (IF dim = 1 THEN 1 ELSE size1) * numel + b

\* position in the buffer of element (r, k, b) of the strided view
stripeOffset(size1, numel, offset, dim, r, k, b) ==
    LET stride0 == (size1 + 1) * numel
        stride1 == (IF dim = 1 THEN 1 ELSE size1) * numel
        storage_offset == (offset[1] * size1 + offset[2]) * numel
    IN  storage_offset + r * stride0 + k * stride1 + b

\* stripe(x, n, w, offset, dim) read as a value [r][k][b]
stripe(x, n, width, offset, dim) ==
    LET size1 == Cardinality(DOMAIN x[0])
        numel == Cardinality(DOMAIN x[0][0])
    IN  [r \in 0 .. n - 1 |-> [k \in 0 .. width - 1 |-> [b \in 0 .. numel - 1 |->
            contiguousAt(x, stripeOffset(size1, numel, offset, dim, r, k, b))]]]

\* a + b of two [n][w][b] tensors
add(A, B) ==
    [r \in DOMAIN A |-> [k \in DOMAIN A[r] |-> [b \in DOMAIN A[r][k] |->
        A[r][k][b] * B[r][k][b]]]]

\* x.permute(2, 0, 1).logsumexp(-1) of an [n][w][b] tensor: [b][r]
reduce(X, n, width) ==
    [b \in Batch |-> [r \in 0 .. n - 1 |->
        logsumexp([k \in 0 .. width - 1 |-> X[r][k][b]], width)]]

\* x.diagonal(off) of a [seq_len][seq_len][b] tensor: [b][r]
diagonal(x, off) ==
    [b \in Batch |-> [r \in 0 .. seq_len - (IF off >= 0 THEN off ELSE -off) - 1 |->
        IF off >= 0 THEN x[r][r + off][b] ELSE x[r - off][r][b]]]

\* x after x.diagonal(off).copy_(v)
diagonal_copy(x, off, v) ==
    [i \in Pos |-> [j \in Pos |-> [b \in Batch |->
        IF j - i = off THEN v[b][IF off >= 0 THEN i ELSE j] ELSE x[i][j][b]]]]

\* a + b of two [b][r] tensors
add2(A, B) == [b \in DOMAIN A |-> [r \in DOMAIN A[b] |-> A[b][r] * B[b][r]]]

\* x.permute(2, 1, 0) of a [b][d][h] tensor: [h][d][b]
permute(x) == [h \in Pos |-> [d \in Pos |-> [b \in Batch |-> x[b][d][h]]]]

\* torch.full_like(x, v)
full_like(v) == [i \in Pos |-> [j \in Pos |-> [b \in Batch |-> v]]]

\* mask.sum(1)
lensOf(m) == [b \in Batch |-> Cardinality({p \in Pos : m[b][p]})]

-----------------------------------------------------------------------------
(* CRFDependency.inside                                                    *)

\* tables before the loop
init_s_c == [i \in Pos |-> [j \in Pos |-> [b \in Batch |-> IF i = j THEN One ELSE NegInf]]]

\* candsMask without "| cands.lt(0)": a free word keeps no head
candsMaskNoFree(m, c) ==
    [h \in Pos |-> [d \in Pos |-> [b \in Batch |->
        /\ (d = 0 \/ c[b][d] = h)
        /\ (h = 0 \/ m[b][h]) /\ (d = 0 \/ m[b][d])]]]

\* the arcs cands leaves: [h][d][b]
candsMask(m, c) ==
    LET m0 == [b \in Batch |-> [p \in Pos |-> IF p = 0 THEN TRUE ELSE m[b][p]]]
        mm == [h \in Pos |-> [d \in Pos |-> [b \in Batch |-> m0[b][d] /\ m0[b][h]]]]
        c0 == [b \in Batch |-> [p \in Pos |-> IF p = 0 THEN -1 ELSE c[b][p]]]
        ce == [b \in Batch |-> [d \in Pos |-> [h \in Pos |-> c0[b][d] = h \/ c0[b][d] < 0]]]
    IN  [h \in Pos |-> [d \in Pos |-> [b \in Batch |-> ce[b][d][h] /\ mm[h][d][b]]]]

\* inside's local scores: permuted, and masked when cands is given
localScores(sc, m, c) ==
    LET p == permute(sc)
    IN  IF c = None THEN p
        ELSE LET keep == candsMask(m, c)
             IN  [h \in Pos |-> [d \in Pos |-> [b \in Batch |->
                     IF keep[h][d][b] THEN p[h][d][b] ELSE NegInf]]]

\* s_i after both diagonals of width w are written
stepI(si, sc, a, width) ==
    LET n == seq_len - width
        ilr == add(stripe(sc, n, width, <<0, 0>>, 1), stripe(sc, n, width, <<width, 1>>, 1))
        il == reduce(ilr, n, width)
        lower == diagonal_copy(si, -width, add2(il, diagonal(a, -width)))
    IN  diagonal_copy(lower, width, add2(il, diagonal(a, width)))

\* stepCl reading the stripe of s_i one column to the right
stepClShifted(si, sc, width) ==
    LET n == seq_len - width
        cl == add(stripe(sc, n, width, <<0, 0>>, 0), stripe(si, n, width, <<width, 1>>, 1))
    IN  diagonal_copy(sc, -width, reduce(cl, n, width))

\* s_c after the lower diagonal of width w is written
stepCl(si, sc, width) ==
    LET n == seq_len - width
        cl == add(stripe(sc, n, width, <<0, 0>>, 0), stripe(si, n, width, <<width, 0>>, 1))
    IN  diagonal_copy(sc, -width, reduce(cl, n, width))

\* s_c after the upper diagonal of width w is written
stepCr(si, sc, width) ==
    LET n == seq_len - width
        cr == add(stripe(si, n, width, <<0, 1>>, 1), stripe(sc, n, width, <<1, width>>, 0))
    IN  diagonal_copy(sc, width, reduce(cr, n, width))

\* rootMask left out
rootMaskNone(sc, lens, width) == sc

\* rootMask with lens.gt(w) for lens.ne(w)
rootMaskShorter(sc, lens, width) ==
    [i \in Pos |-> [j \in Pos |-> [b \in Batch |->
        IF i = 0 /\ j = width /\ lens[b] > width THEN NegInf ELSE sc[i][j][b]]]]

\* s_c after s_c[0, w][lens.ne(w)] = -inf
rootMask(sc, lens, width) ==
    [i \in Pos |-> [j \in Pos |-> [b \in Batch |->
        IF i = 0 /\ j = width /\ lens[b] # width THEN NegInf ELSE sc[i][j][b]]]]

\* iteration handing stepCl and stepCr the s_i of before the iteration
iterationStale(si, sc, a, lens, width) ==
    LET si1 == stepI(si, sc, a, width)
        sc1 == stepCl(si, sc, width)
        sc2 == stepCr(si, sc1, width)
    IN  <<si1, rootMask(sc2, lens, width)>>

\* one iteration of the width loop: <<s_i, s_c>>
iteration(si, sc, a, lens, width) ==
    LET si1 == stepI(si, sc, a, width)
        sc1 == stepCl(si1, sc, width)
        sc2 == stepCr(si1, sc1, width)
    IN  <<si1, rootMask(sc2, lens, width)>>

-----------------------------------------------------------------------------
(* Inputs                                                                  *)

\* a sentence of L words: positions 1..L are valid, 0 and the rest are not
maskOf(lens) == [b \in Batch |-> [p \in Pos |-> 1 <= p /\ p <= lens[b]]]

\* the two sentences of a batch have different lengths
LensInputs == {[b \in Batch |-> ((l + b - 1) % MaxLen) + 1] : l \in 1 .. MaxLen}

\* weight 1 everywhere except on the arcs of H (<<h, d>>), batch-dependent there
heavyScores(H) ==
    [b \in Batch |-> [d \in Pos |-> [h \in Pos |-> IF <<h, d>> \in H THEN 2 + b ELSE 1]]]

\* an assignment of unequal weights, one per seed
genericScores(seed) ==
    [b \in Batch |-> [d \in Pos |-> [h \in Pos |->
        1 + (((seed + 2) * h + 3 * d + h * d + b) % 4)]]]

Seeds == {0, 1, 2}

\* all weights 1; one arc (or diagonal entry) heavier; unequal weights
ScoreInputs ==
    {heavyScores({})} \cup {heavyScores({a}) : a \in Pos \X Pos}
        \cup {genericScores(k) : k \in Seeds}

\* cands: every word free (-1) or given any head; position 0 holds 0
CandsInputs ==
    {[b \in Batch |-> [p \in Pos |-> IF p = 0 THEN 0 ELSE c[p]]] :
        c \in [1 .. seq_len - 1 -> -1 .. seq_len - 1]}

-----------------------------------------------------------------------------
(* CRFDependency.inside as a state machine                                 *)

stripeVars == <<x_shape, x_stride, mem, st_args, view, ret, op>>
forwardVars == <<target, f_mbr, f_partial, requires_grad, results>>
otherVars == <<stripeVars, forwardVars>>
vars == <<insideVars, otherVars>>

\* the variables of the other components, unused here
StripeIdle ==
    /\ x_shape = None /\ x_stride = None /\ mem = None /\ st_args = None
    /\ view = None /\ ret = None /\ op = None
ForwardIdle ==
    /\ target = None /\ f_mbr = None /\ f_partial = None
    /\ requires_grad = None /\ results = None
OtherIdle == StripeIdle /\ ForwardIdle

Init ==
    /\ crf = "CRFDependency"
    /\ \E lens \in LensInputs : mask = maskOf(lens)
    /\ \/ cands = None /\ scores \in ScoreInputs
       \/ cands \in CandsInputs /\ scores = genericScores(0)
    /\ s_sib = None
    /\ pc = "loop"
    /\ w = 1
    /\ arc = localScores(scores, mask, cands)
    /\ s_i = full_like(NegInf)
    /\ s_s = None
    /\ s_c = init_s_c
    /\ s = None
    /\ OtherIdle

\* one pass through the body of the width loop
Iterate ==
    /\ crf = "CRFDependency"
    /\ pc = "loop"
    /\ w < seq_len
    /\ LET r == iteration(s_i, s_c, arc, lensOf(mask), w)
       IN  s_i' = r[1] /\ s_c' = r[2]
    /\ w' = w + 1
    /\ UNCHANGED <<crf, scores, s_sib, mask, cands, pc, arc, s_s, s>>
    /\ UNCHANGED otherVars

\* return s_i, s_c
Return ==
    /\ pc = "loop"
    /\ w = seq_len
    /\ pc' = "done"
    /\ UNCHANGED <<crf, scores, s_sib, mask, cands, w, arc, s_i, s_s, s_c, s>>
    /\ UNCHANGED otherVars

Next == Iterate \/ Return

Spec == Init /\ [][Next]_vars

-----------------------------------------------------------------------------
(* CRF2oDependency.inside                                                  *)

\* s_sib.permute(2, 1, 3, 0) of a [b][d][h][k] tensor: [h][d][k][b]
permuteSib(x) ==
    [h \in Pos |-> [d \in Pos |-> [k \in Pos |-> [b \in Batch |-> x[b][d][h][k]]]]]

\* s_sib[range(lo0, lo0 + n), range(lo1, lo1 + n)]: [t][k][b]
pairIndex(sib, lo0, lo1, n) ==
    [t \in 0 .. n - 1 |-> [k \in Pos |-> [b \in Batch |-> sib[lo0 + t][lo1 + t][k][b]]]]

\* x after x[:, col] = v.squeeze(1), for x of shape [n][w][b] and v of [n][1][b]
setColumn(x, col, v) ==
    [r \in DOMAIN x |-> [k \in DOMAIN x[r] |-> [b \in DOMAIN x[r][k] |->
        IF k = col THEN v[r][0][b] ELSE x[r][k][b]]]]

\* x after x[0] = val, or after x.index_fill_(0, [0], val)
setRow0(x, val) ==
    [r \in DOMAIN x |-> [k \in DOMAIN x[r] |-> [b \in DOMAIN x[r][k] |->
        IF r = 0 THEN val ELSE x[r][k][b]]]]

\* s_i after its lower diagonal of width w is written
stepIl2o(si, ss, sc, a, sib, width) ==
    LET n == seq_len - width
        il1 == add(stripe(si, n, width, <<width, 1>>, 1), stripe(ss, n, width, <<1, 0>>, 0))
        il2 == add(il1, stripe(pairIndex(sib, width, 0, n), n, width, <<0, 1>>, 1))
        il0 == add(stripe(sc, n, 1, <<width, width>>, 1), stripe(sc, n, 1, <<0, width - 1>>, 1))
        il == setColumn(il2, width - 1, setRow0(il0, One))
    IN  diagonal_copy(si, -width, add2(reduce(il, n, width), diagonal(a, -width)))

\* stepIr2o without "ir[0] = float('-inf')": the root takes further dependents
stepIr2oRootSiblings(si, ss, sc, a, sib, width) ==
    LET n == seq_len - width
        ir1 == add(stripe(si, n, width, <<0, 0>>, 1), stripe(ss, n, width, <<0, width>>, 0))
        ir2 == add(ir1, stripe(pairIndex(sib, 0, width, n), n, width, <<0, 0>>, 1))
        ir0 == add(stripe(sc, n, 1, <<0, 0>>, 1), stripe(sc, n, 1, <<width, 1>>, 1))
        ir == setColumn(ir2, 0, ir0)
    IN  diagonal_copy(si, width, add2(reduce(ir, n, width), diagonal(a, width)))

\* s_i after its upper diagonal of width w is written
stepIr2o(si, ss, sc, a, sib, width) ==
    LET n == seq_len - width
        ir1 == add(stripe(si, n, width, <<0, 0>>, 1), stripe(ss, n, width, <<0, width>>, 0))
        ir2 == add(ir1, stripe(pairIndex(sib, 0, width, n), n, width, <<0, 0>>, 1))
        ir3 == setRow0(ir2, NegInf)
        ir0 == add(stripe(sc, n, 1, <<0, 0>>, 1), stripe(sc, n, 1, <<width, 1>>, 1))
        ir == setColumn(ir3, 0, ir0)
    IN  diagonal_copy(si, width, add2(reduce(ir, n, width), diagonal(a, width)))

\* stepS2o writing the upper diagonal only
stepS2oUpper(ss, sc, width) ==
    LET n == seq_len - width
        slr == reduce(add(stripe(sc, n, width, <<0, 0>>, 1),
                          stripe(sc, n, width, <<width, 1>>, 1)), n, width)
    IN  diagonal_copy(ss, width, slr)

\* s_s after both diagonals of width w are written
stepS2o(ss, sc, width) ==
    LET n == seq_len - width
        slr == reduce(add(stripe(sc, n, width, <<0, 0>>, 1),
                          stripe(sc, n, width, <<width, 1>>, 1)), n, width)
    IN  diagonal_copy(diagonal_copy(ss, -width, slr), width, slr)

\* one iteration of the width loop: <<s_i, s_s, s_c>>
iteration2o(si, ss, sc, a, sib, lens, width) ==
    LET si1 == stepIl2o(si, ss, sc, a, sib, width)
        si2 == stepIr2o(si1, ss, sc, a, sib, width)
        ss1 == stepS2o(ss, sc, width)
        sc1 == stepCl(si2, sc, width)
        sc2 == stepCr(si2, sc1, width)
    IN  <<si2, ss1, rootMask(sc2, lens, width)>>

\* sibling scores [b][d][h][k]: all 1, or unequal weights
sibScores(seed) ==
    [b \in Batch |-> [d \in Pos |-> [h \in Pos |-> [k \in Pos |->
        IF seed = 0 THEN 1 ELSE 1 + ((h + 2 * d + 3 * k + h * k + b + seed) % 3)]]]]

SibSeeds == {0, 1, 2}

\* a few settings of cands: absent, all free, single words given a head
FewCands ==
    {None} \cup
    {[b \in Batch |-> [p \in Pos |-> IF p = d THEN h ELSE -1]] : d \in 1 .. 2, h \in 0 .. 2}

Init2o ==
    /\ crf \in {"CRFDependency", "CRF2oDependency"}
    /\ \E lens \in LensInputs : mask = maskOf(lens)
    /\ cands \in FewCands
    /\ scores \in {heavyScores({}), genericScores(0), genericScores(1)}
    /\ s_sib \in IF crf = "CRF2oDependency" THEN {sibScores(k) : k \in SibSeeds} ELSE {None}
    /\ pc = "loop"
    /\ w = 1
    /\ arc = localScores(scores, mask, cands)
    /\ s_i = full_like(NegInf)
    /\ s_s = IF crf = "CRF2oDependency" THEN full_like(NegInf) ELSE None
    /\ s_c = init_s_c
    /\ s = None
    /\ OtherIdle

\* one pass through the body of the second-order width loop
Iterate2o ==
    /\ crf = "CRF2oDependency"
    /\ pc = "loop"
    /\ w < seq_len
    /\ LET r == iteration2o(s_i, s_s, s_c, arc, permuteSib(s_sib), lensOf(mask), w)
       IN  s_i' = r[1] /\ s_s' = r[2] /\ s_c' = r[3]
    /\ w' = w + 1
    /\ UNCHANGED <<crf, scores, s_sib, mask, cands, pc, arc, s>>
    /\ UNCHANGED otherVars

Next2o == Iterate \/ Iterate2o \/ Return

Spec2o == Init2o /\ [][Next2o]_vars

-----------------------------------------------------------------------------
(* CRFConstituency.inside                                                  *)

\* scores.permute(1, 2, 0) of a [b][i][j] tensor: [i][j][b]
permuteCon(x) == [i \in Pos |-> [j \in Pos |-> [b \in Batch |-> x[b][i][j]]]]

\* iterationCon without "+ scores.diagonal(w)" on the wider spans
iterationConNoScore(chart, sp, width) ==
    LET n == seq_len - width
    IN  IF width = 1 THEN diagonal_copy(chart, width, diagonal(sp, width))
        ELSE diagonal_copy(chart, width,
                reduce(add(stripe(chart, n, width - 1, <<0, 1>>, 1),
                           stripe(chart, n, width - 1, <<1, width>>, 0)), n, width - 1))

\* the chart after the iteration of width w
iterationCon(chart, sp, width) ==
    LET n == seq_len - width
    IN  IF width = 1 THEN diagonal_copy(chart, width, diagonal(sp, width))
        ELSE LET ss == add(stripe(chart, n, width - 1, <<0, 1>>, 1),
                           stripe(chart, n, width - 1, <<1, width>>, 0))
             IN  diagonal_copy(chart, width,
                               add2(reduce(ss, n, width - 1), diagonal(sp, width)))

\* the span mask of a sentence of L leaves: spans (i, j), i < j <= L
maskCon(lens) == [b \in Batch |-> [i \in Pos |-> [j \in Pos |-> i < j /\ j <= lens[b]]]]

\* mask[:, 0].sum(-1)
lensCon(m) == [b \in Batch |-> Cardinality({j \in Pos : m[b][0][j]})]

InitCon ==
    /\ crf = "CRFConstituency"
    /\ \E lens \in LensInputs : mask = maskCon(lens)
    /\ cands = None
    /\ scores \in ScoreInputs
    /\ s_sib = None
    /\ pc = "loop"
    /\ w = 1
    /\ arc = permuteCon(scores)
    /\ s_i = None
    /\ s_s = None
    /\ s_c = None
    /\ s = full_like(NegInf)
    /\ OtherIdle

\* one pass through the body of the constituency width loop
IterateCon ==
    /\ crf = "CRFConstituency"
    /\ pc = "loop"
    /\ w < seq_len
    /\ s' = iterationCon(s, arc, w)
    /\ w' = w + 1
    /\ UNCHANGED <<crf, scores, s_sib, mask, cands, pc, arc, s_i, s_s, s_c>>
    /\ UNCHANGED otherVars

NextCon == IterateCon \/ Return

SpecCon == InitCon /\ [][NextCon]_vars

-----------------------------------------------------------------------------
(* stripe and the storage of its argument                                  *)

DocLen == 5                     \* the 5 x 5 table of stripe's docstring

\* shapes <<seq_len, numel>>: the docstring's table and the inside tables
Shapes == {<<DocLen, 1>>, <<seq_len, Cardinality(Batch)>>}

\* strides of a freshly allocated (row-major) table
contiguousStride(shape) == <<shape[1] * shape[2], shape[2], 1>>

\* strides of full_like(scores.permute(2, 1, 0)) when full_like keeps the
\* strides of its dense argument: scores is row-major [numel, seq_len, seq_len]
permutedStride(shape) == <<1, shape[1], shape[1] * shape[1]>>

\* x.is_contiguous(): strides of dimensions of size 1 are not looked at
is_contiguous(shape, stride) ==
    LET size == <<shape[1], shape[1], shape[2]>>
        expect == <<shape[1] * shape[2], shape[2], 1>>
    IN  \A d \in 1 .. 3 : size[d] # 1 => stride[d] = expect[d]

\* contiguousStorage that always copies
contiguousStorageCopy(shape, stride) == "copy"

\* the storage x.contiguous() returns: x's own, or a new one
contiguousStorage(shape, stride) == IF is_contiguous(shape, stride) THEN "x" ELSE "copy"

\* the table as its indices see it
tableAt(i, j, b) == mem["x"][i * x_stride[1] + j * x_stride[2] + b * x_stride[3]]
table ==
    [i \in 0 .. x_shape[1] - 1 |-> [j \in 0 .. x_shape[1] - 1 |->
        [b \in 0 .. x_shape[2] - 1 |-> tableAt(i, j, b)]]]

\* element (r, k, b) of the stripe, read now
viewAt(r, k, b) ==
    mem[view][stripeOffset(x_shape[1], x_shape[2], st_args.offset, st_args.dim, r, k, b)]

\* arguments as_strided accepts: the last element lies in the storage
ValidArgs(shape) ==
    {a \in [n : 1 .. shape[1], w : 1 .. shape[1],
            offset : (0 .. shape[1] - 1) \X (0 .. shape[1] - 1), dim : {0, 1}] :
        stripeOffset(shape[1], shape[2], a.offset, a.dim, a.n - 1, a.w - 1, shape[2] - 1)
            < shape[1] * shape[1] * shape[2]}

\* the table index stripe element (r, k) stands for
tableIndex(a, r, k) ==
    IF a.dim = 1 THEN <<a.offset[1] + r, a.offset[2] + r + k>>
    ELSE <<a.offset[1] + r + k, a.offset[2] + r>>

\* the storage of a table of the given strides that holds arange:
\* x[i, j, b] = (i * seq_len + j) * numel + b
arangeBuffer(shape, stride) ==
    LET index == (0 .. shape[1] - 1) \X (0 .. shape[1] - 1) \X (0 .. shape[2] - 1)
        at(ix) == ix[1] * stride[1] + ix[2] * stride[2] + ix[3] * stride[3]
    IN  [p \in 0 .. shape[1] * shape[1] * shape[2] - 1 |->
            LET ix == CHOOSE ix \in index : at(ix) = p
            IN  (ix[1] * shape[1] + ix[2]) * shape[2] + ix[3]]

InitStripe ==
    /\ crf = "stripe"
    /\ scores = None /\ s_sib = None /\ mask = None /\ cands = None
    /\ pc = "start" /\ w = 0 /\ arc = None
    /\ s_i = None /\ s_s = None /\ s_c = None /\ s = None
    /\ x_shape \in Shapes
    /\ x_stride \in {contiguousStride(x_shape), permutedStride(x_shape)}
    /\ mem = [st \in {"x", "copy"} |->
                IF st = "x" THEN arangeBuffer(x_shape, x_stride) ELSE None]
    /\ st_args = None /\ view = None /\ ret = None /\ op = None
    /\ ForwardIdle

\* stripe(x, n, w, offset, dim)
CallStripe ==
    /\ pc = "start"
    /\ \E a \in ValidArgs(x_shape) :
        /\ st_args' = a
        /\ view' = contiguousStorage(x_shape, x_stride)
        /\ mem' = IF view' = "x" THEN mem ELSE [mem EXCEPT !["copy"] = contiguous(table)]
        /\ ret' = stripe(table, a.n, a.w, a.offset, a.dim)
    /\ pc' = "called"
    /\ UNCHANGED <<crf, scores, s_sib, mask, cands, w, arc, s_i, s_s, s_c, s>>
    /\ UNCHANGED <<x_shape, x_stride, op, forwardVars>>

NewValue == 0 - 1                \* a value the table does not hold

\* view[r, k, b] = NewValue
WriteView ==
    /\ pc = "called"
    /\ \E r \in 0 .. st_args.n - 1, k \in 0 .. st_args.w - 1, b \in 0 .. x_shape[2] - 1 :
        /\ mem' = [mem EXCEPT ![view][stripeOffset(x_shape[1], x_shape[2],
                                        st_args.offset, st_args.dim, r, k, b)] = NewValue]
        /\ op' = [kind |-> "view", r |-> r, k |-> k, b |-> b]
    /\ pc' = "written"
    /\ UNCHANGED <<crf, scores, s_sib, mask, cands, w, arc, s_i, s_s, s_c, s>>
    /\ UNCHANGED <<x_shape, x_stride, st_args, view, ret, forwardVars>>

\* x[i, j, b] = NewValue
WriteTable ==
    /\ pc = "called"
    /\ \E i \in 0 .. x_shape[1] - 1, j \in 0 .. x_shape[1] - 1, b \in 0 .. x_shape[2] - 1 :
        /\ mem' = [mem EXCEPT !["x"][i * x_stride[1] + j * x_stride[2] + b * x_stride[3]]
                                    = NewValue]
        /\ op' = [kind |-> "table", i |-> i, j |-> j, b |-> b]
    /\ pc' = "written"
    /\ UNCHANGED <<crf, scores, s_sib, mask, cands, w, arc, s_i, s_s, s_c, s>>
    /\ UNCHANGED <<x_shape, x_stride, st_args, view, ret, forwardVars>>

NextStripe == CallStripe \/ WriteView \/ WriteTable

SpecStripe == InitStripe /\ [][NextStripe]_vars

-----------------------------------------------------------------------------
(* forward of the three modules                                            *)

RECURSIVE insideLoop(_, _, _, _, _)
insideLoop(si, sc, a, lens, width) ==
    IF width = seq_len THEN <<si, sc>>
    ELSE LET r == iteration(si, sc, a, lens, width)
         IN  insideLoop(r[1], r[2], a, lens, width + 1)

\* CRFDependency.inside(scores, mask, cands): <<s_i, s_c>>
inside(sc, m, c) ==
    insideLoop(full_like(NegInf), init_s_c, localScores(sc, m, c), lensOf(m), 1)

RECURSIVE insideLoop2o(_, _, _, _, _, _, _)
insideLoop2o(si, ss, sc, a, sib, lens, width) ==
    IF width = seq_len THEN <<si, ss, sc>>
    ELSE LET r == iteration2o(si, ss, sc, a, sib, lens, width)
         IN  insideLoop2o(r[1], r[2], r[3], a, sib, lens, width + 1)

\* CRF2oDependency.inside((s_arc, s_sib), mask, cands): <<s_i, s_s, s_c>>
inside2o(sa, sb, m, c) ==
    insideLoop2o(full_like(NegInf), full_like(NegInf), init_s_c,
                 localScores(sa, m, c), permuteSib(sb), lensOf(m), 1)

RECURSIVE insideLoopCon(_, _, _)
insideLoopCon(chart, sp, width) ==
    IF width = seq_len THEN chart
    ELSE insideLoopCon(iterationCon(chart, sp, width), sp, width + 1)

\* CRFConstituency.inside(scores, mask): s
insideCon(sc) == insideLoopCon(full_like(NegInf), permuteCon(sc), 1)

\* x[0].gather(0, lens.unsqueeze(0)).sum()
gatherSum(x, lens) == Product([b \in Batch |-> x[0][lens[b]][b]], Batch)

\* mbrDefault with False in every signature
mbrDefaultFalse(c) == "false"

\* the default of the mbr parameter in each signature
mbrDefault(c) == IF c = "CRF2oDependency" THEN "true" ELSE "false"

\* whether the signature has a partial parameter
hasPartial(c) == c # "CRFConstituency"

\* the value a parameter takes in the call
argValue(given, default) == IF given = "default" THEN default ELSE given

\* probs: the scores themselves, or autograd.grad(logZ, scores, retain_graph=training)
probsOf(mbr, training) ==
    IF mbr = "true" THEN [kind |-> "marginals", retain_graph |-> training]
    ELSE [kind |-> "scores"]

\* (logZ - score) / total, kept as its three parts
lossOf(logZ, score, total) == [logZ |-> logZ, score |-> score, total |-> total]

\* total = mask.sum()
totalOf(lens) == SumOver(lens, Batch)

\* goldArcs without "[mask]": padding and position 0 are summed too
goldArcsUnmasked(sc, m, tgt) ==
    LET at == Batch \X Pos
    IN  Product([bp \in at |-> sc[bp[1]][bp[2]][tgt[bp[1]][bp[2]]]], at)

\* scores.gather(-1, target.unsqueeze(-1)).squeeze(-1)[mask].sum()
goldArcs(sc, m, tgt) ==
    LET at == {bp \in Batch \X Pos : m[bp[1]][bp[2]]}
    IN  Product([bp \in at |-> sc[bp[1]][bp[2]][tgt[bp[1]][bp[2]]]], at)

\* s_sib[mask][arange, arc_seq][sib_mask].gather(-1, sib_seq.unsqueeze(-1)).sum()
goldSibs(sb, m, arcs, sibs) ==
    LET at == {bp \in Batch \X Pos : m[bp[1]][bp[2]] /\ sibs[bp[1]][bp[2]] > 0}
    IN  Product([bp \in at |->
            sb[bp[1]][bp[2]][arcs[bp[1]][bp[2]]][sibs[bp[1]][bp[2]]]], at)

\* scores[mask & target].sum()
goldSpans(sc, m, tgt) ==
    LET at == {bij \in Batch \X Pos \X Pos :
                  m[bij[1]][bij[2]][bij[3]] /\ tgt[bij[1]][bij[2]][bij[3]]}
    IN  Product([bij \in at |-> sc[bij[1]][bij[2]][bij[3]]], at)

\* what forward returns
returned(tgt, loss, probs) ==
    IF tgt = None THEN [kind |-> "probs", probs |-> probs]
    ELSE [kind |-> "pair", loss |-> loss, probs |-> probs]

\* CRFDependency.forward
forwardDep(sc, m, tgt, mbr, partial, training) ==
    LET lens == lensOf(m)
        logZ == gatherSum(inside(sc, m, None)[2], lens)
        score == IF partial = "true" THEN gatherSum(inside(sc, m, tgt)[2], lens)
                 ELSE goldArcs(sc, m, tgt)
    IN  returned(tgt, lossOf(logZ, score, totalOf(lens)), probsOf(mbr, training))

\* CRF2oDependency.forward
forward2o(sa, sb, m, tgt, mbr, partial, training) ==
    LET lens == lensOf(m)
        logZ == gatherSum(inside2o(sa, sb, m, None)[3], lens)
        score == IF partial = "true" THEN gatherSum(inside2o(sa, sb, m, tgt.arcs)[3], lens)
                 ELSE goldArcs(sa, m, tgt.arcs) * goldSibs(sb, m, tgt.arcs, tgt.sibs)
    IN  returned(tgt, lossOf(logZ, score, totalOf(lens)), probsOf(mbr, training))

\* CRFConstituency.forward
forwardCon(sc, m, tgt, mbr, training) ==
    LET lens == lensCon(m)
        logZ == gatherSum(insideCon(sc), lens)
    IN  returned(tgt, lossOf(logZ, goldSpans(sc, m, tgt), totalOf(lens)),
                 probsOf(mbr, training))

MaxCalls == 2                   \* forward calls in a run

\* sentence lengths of a batch: unequal, or all 1
LensForward == LensInputs \cup {[b \in Batch |-> 1]}

\* a head for every position: any of the positions; position 0 holds 0
FullTargets ==
    {[b \in Batch |-> [p \in Pos |-> IF p = 0 THEN 0 ELSE c[p]]] :
        c \in [1 .. seq_len - 1 -> Pos]}

\* the chain 0 -> 1 -> 2 -> ...
chainTarget == [b \in Batch |-> [p \in Pos |-> IF p = 0 THEN 0 ELSE p - 1]]

\* one target per module
someTarget(c, lens) ==
    IF c = "CRFDependency" THEN chainTarget
    ELSE IF c = "CRF2oDependency"
         THEN [arcs |-> chainTarget, sibs |-> [b \in Batch |-> [p \in Pos |-> 0]]]
    ELSE [b \in Batch |-> [i \in Pos |-> [j \in Pos |-> j = i + 1 \/ i = 0]]]

Flags == {"default", "true", "false"}

InitForward ==
    /\ crf \in {"CRFDependency", "CRF2oDependency", "CRFConstituency"}
    /\ \E lens \in LensForward :
        /\ mask = IF crf = "CRFConstituency" THEN maskCon(lens) ELSE maskOf(lens)
        /\ \/ /\ target \in {None, someTarget(crf, lens)}
              /\ f_mbr \in Flags
              /\ f_partial \in Flags
              /\ requires_grad \in BOOLEAN
              /\ scores = genericScores(0)
           \/ /\ crf = "CRFDependency"
              /\ target \in FullTargets
              /\ f_mbr = "default"
              /\ f_partial \in {"true", "false"}
              /\ requires_grad = FALSE
              /\ scores = genericScores(1)
    /\ s_sib = IF crf = "CRF2oDependency" THEN sibScores(1) ELSE None
    /\ cands = None /\ pc = "caller" /\ w = 0 /\ arc = None
    /\ s_i = None /\ s_s = None /\ s_c = None /\ s = None
    /\ results = << >>
    /\ StripeIdle

\* the caller calls crf.forward(scores, mask, target, mbr, partial) and it returns
CallDep ==
    /\ crf = "CRFDependency"
    /\ Len(results) < MaxCalls
    /\ results' = Append(results,
            forwardDep(scores, mask, target, argValue(f_mbr, mbrDefault(crf)),
                       argValue(f_partial, "false"), requires_grad))
    /\ requires_grad' = TRUE
    /\ UNCHANGED <<insideVars, stripeVars, target, f_mbr, f_partial>>

Call2o ==
    /\ crf = "CRF2oDependency"
    /\ Len(results) < MaxCalls
    /\ results' = Append(results,
            forward2o(scores, s_sib, mask, target, argValue(f_mbr, mbrDefault(crf)),
                      argValue(f_partial, "false"), requires_grad))
    /\ requires_grad' = TRUE
    /\ UNCHANGED <<insideVars, stripeVars, target, f_mbr, f_partial>>

\* CRFConstituency.forward has no partial parameter: passing one is a TypeError
CallCon ==
    /\ crf = "CRFConstituency"
    /\ Len(results) < MaxCalls
    /\ IF f_partial # "default" /\ ~hasPartial(crf)
       THEN /\ results' = Append(results, [kind |-> "TypeError"])
            /\ UNCHANGED requires_grad
       ELSE /\ results' = Append(results,
                    forwardCon(scores, mask, target, argValue(f_mbr, mbrDefault(crf)),
                               requires_grad))
            /\ requires_grad' = TRUE
    /\ UNCHANGED <<insideVars, stripeVars, target, f_mbr, f_partial>>

NextForward == CallDep \/ Call2o \/ CallCon

SpecForward == InitForward /\ [][NextForward]_vars

-----------------------------------------------------------------------------
(* Reference: the trees of a sentence                                      *)

\* a is a proper ancestor of d under the heads h
RECURSIVE IsAncestor(_, _, _, _)
IsAncestor(h, a, d, fuel) ==
    /\ d \in DOMAIN h
    /\ fuel > 0
    /\ (h[d] = a \/ IsAncestor(h, a, h[d], fuel - 1))

Between(x, y) == {k \in Pos : (x < k /\ k < y) \/ (y < k /\ k < x)}

\* heads h over the words 1..L form a projective tree whose root 0 has one dependent
ValidTree(h, L) ==
    /\ \A d \in 1 .. L : h[d] # d
    /\ Cardinality({d \in 1 .. L : h[d] = 0}) = 1
    /\ \A d \in 1 .. L : IsAncestor(h, 0, d, L)
    /\ \A d \in 1 .. L : \A k \in Between(h[d], d) : IsAncestor(h, h[d], k, L)

Trees == [L \in 1 .. MaxLen |-> {h \in [1 .. L -> 0 .. L] : ValidTree(h, L)}]

\* total arc weight of tree h of sentence b under the caller's scores
TreeWeight(h, L, b) == Product([d \in 1 .. L |-> scores[b][d][h[d]]], 1 .. L)

\* the trees that agree with cands at every constrained word
Agrees(h, L, b) ==
    cands = None \/ \A d \in 1 .. L : cands[b][d] >= 0 => h[d] = cands[b][d]

PartitionValue(L, b) ==
    LET T == {h \in Trees[L] : Agrees(h, L, b)}
    IN  SumOver([h \in T |-> TreeWeight(h, L, b)], T)

-----------------------------------------------------------------------------
(* Reference: the binary bracketings of a span                             *)

Spans(L) == {sp \in (0 .. L) \X (0 .. L) : sp[1] < sp[2]}

Crossing(p, q) ==
    \/ p[1] < q[1] /\ q[1] < p[2] /\ p[2] < q[2]
    \/ q[1] < p[1] /\ p[1] < q[2] /\ q[2] < p[2]

\* the binary bracketings of (0, L): full span, all unit spans, and L - 2
\* further spans, no two crossing
Bracketings ==
    [L \in 1 .. MaxLen |->
        LET unit == {sp \in Spans(L) : sp[2] = sp[1] + 1}
            inner == {sp \in Spans(L) : sp[2] - sp[1] > 1 /\ sp[2] - sp[1] < L}
        IN  {unit \cup {<<0, L>>} \cup T : T \in
                {T \in SUBSET inner :
                    /\ Cardinality(T) = (IF L > 1 THEN L - 2 ELSE 0)
                    /\ \A p, q \in T : ~Crossing(p, q)}}]

\* total span weight of bracketing T of sentence b under the caller's scores
BracketWeight(T, b) == Product([sp \in T |-> scores[b][sp[1]][sp[2]]], T)

ChartValue(L, b) ==
    SumOver([T \in Bracketings[L] |-> BracketWeight(T, b)], Bracketings[L])

RECURSIVE Factorial(_)
Factorial(k) == IF k <= 1 THEN 1 ELSE k * Factorial(k - 1)

Catalan(k) == Factorial(2 * k) \div (Factorial(k + 1) * Factorial(k))

-----------------------------------------------------------------------------
(* Properties                                                              *)

\* the length of sentence b
LenOf(b) == IF crf = "CRFConstituency" THEN lensCon(mask)[b] ELSE lensOf(mask)[b]

\* C1: after CRFDependency.inside without cands, s_c[0, L] of every sentence
\* is the total weight of the projective trees over words 1..L whose root 0
\* has one dependent, each counted once; with all weights 1 it is their number.
C1_LogZSumsValidTrees ==
    (crf = "CRFDependency" /\ pc = "done" /\ cands = None) =>
        \A b \in Batch :
            /\ s_c[0][LenOf(b)][b] = PartitionValue(LenOf(b), b)
            /\ scores = heavyScores({}) =>
                   s_c[0][LenOf(b)][b] = Cardinality(Trees[LenOf(b)])

C1_Witness ==
    /\ crf = "CRFDependency" /\ pc = "done" /\ cands = None
    /\ scores = genericScores(1)
    /\ LenOf(0) = 3
    /\ s_c[0][3][0] > Cardinality(Trees[3])

\* C2: after CRFConstituency.inside, s[0, L] of every sentence is the total
\* weight of the binary bracketings of (0, L), the weight of a bracketing being
\* the product over all its spans; with all weights 1 it is Catalan(L - 1);
\* spans of width 1 hold their own score.
C2_ChartSumsBracketings ==
    (crf = "CRFConstituency" /\ pc = "done") =>
        \A b \in Batch :
            /\ s[0][LenOf(b)][b] = ChartValue(LenOf(b), b)
            /\ scores = heavyScores({}) => s[0][LenOf(b)][b] = Catalan(LenOf(b) - 1)
            /\ \A i \in 0 .. seq_len - 2 : s[i][i + 1][b] = scores[b][i][i + 1]

C2_Witness ==
    /\ crf = "CRFConstituency" /\ pc = "done"
    /\ scores = genericScores(1)
    /\ LenOf(0) = 3
    /\ s[0][3][0] > Catalan(2)

\* C3: in both dependency recurrences, for a sentence of length L > 1 the entry
\* s_c[0, w] of every width w # L is -inf at the end of every iteration and
\* after the return.
C3_RootExclusive ==
    crf \in {"CRFDependency", "CRF2oDependency"} =>
        \A b \in Batch : \A width \in 1 .. seq_len - 1 :
            (LenOf(b) > 1 /\ width # LenOf(b)) => s_c[0][width][b] = NegInf

C3_Witness ==
    /\ crf = "CRF2oDependency" /\ pc = "done"
    /\ LenOf(0) = 2
    /\ s_c[0][2][0] > NegInf
    /\ s_c[0][1][0] = NegInf /\ s_c[0][3][0] = NegInf

\* C4 as stated: a sentence of 3 words with all arc scores zero has 3 trees.
C4_ThreeTrees ==
    (crf = "CRFDependency" /\ pc = "done" /\ cands = None /\ scores = heavyScores({})) =>
        \A b \in Batch : LenOf(b) = 3 => s_c[0][3][b] = 3

\* C4 amended: a sentence of 3 words with all arc scores zero has 7 trees:
\* exp(s_c[0, 3]) = 7.
C4_SevenTrees ==
    (crf = "CRFDependency" /\ pc = "done" /\ cands = None /\ scores = heavyScores({})) =>
        \A b \in Batch : LenOf(b) = 3 => s_c[0][3][b] = 7

C4_Witness ==
    /\ crf = "CRFDependency" /\ pc = "done" /\ cands = None
    /\ scores = heavyScores({})
    /\ LenOf(0) = 3
    /\ s_c[0][3][0] = Cardinality(Trees[3])

\* C5: in CRF2oDependency.inside s_s is symmetric at the end of every
\* iteration and on return, entries still at -inf included.
C5_SiblingSymmetric ==
    crf = "CRF2oDependency" =>
        \A i \in Pos, j \in Pos : \A b \in Batch : s_s[i][j][b] = s_s[j][i][b]

C5_Witness ==
    /\ crf = "CRF2oDependency" /\ pc = "loop" /\ w = 3
    /\ s_s[0][2][0] > NegInf /\ s_s[2][0][0] = s_s[0][2][0]
    /\ s_s[0][3][0] = NegInf

InTable(ix) == ix[1] < x_shape[1] /\ ix[2] < x_shape[1]

DocExample1 == << <<6, 7, 8>>, <<12, 13, 14>> >>
DocExample2 == << <<0, 5, 10>>, <<6, 11, 16>> >>

Marginals(r) == r.probs.kind = "marginals"

\* C7 as stated: in every module, without a target forward returns the raw
\* scores unless mbr is explicitly true, with a target it returns the pair, and
\* a partial argument is accepted.
C7_UniformSignature ==
    crf \in {"CRFDependency", "CRF2oDependency", "CRFConstituency"} =>
        \A i \in 1 .. Len(results) :
            /\ results[i].kind # "TypeError"
            /\ target = None => /\ results[i].kind = "probs"
                                /\ Marginals(results[i]) <=> f_mbr = "true"
            /\ target # None => results[i].kind = "pair"

\* C7 amended: CRFDependency and CRFConstituency return marginals only when mbr
\* is explicitly true; CRF2oDependency, whose mbr defaults to True, returns them
\* unless mbr is explicitly false.  Without a target the result is the
\* probabilities, with one the pair.  Only the two dependency modules take
\* partial: CRFConstituency.forward called with it raises TypeError.
C7_SignaturePerModule ==
    crf \in {"CRFDependency", "CRF2oDependency", "CRFConstituency"} =>
        \A i \in 1 .. Len(results) :
            IF crf = "CRFConstituency" /\ f_partial # "default"
            THEN results[i].kind = "TypeError"
            ELSE /\ results[i].kind = (IF target = None THEN "probs" ELSE "pair")
                 /\ Marginals(results[i]) <=>
                        \/ f_mbr = "true"
                        \/ f_mbr = "default" /\ crf = "CRF2oDependency"

C7_Witness ==
    /\ crf = "CRF2oDependency" /\ f_mbr = "default" /\ target = None
    /\ Len(results) >= 1
    /\ results[1].kind = "probs" /\ Marginals(results[1])

\* C8: after CRFDependency.inside with cands, s_c[0, L] is the total weight of
\* the valid trees in which every word with cands >= 0 has that head; arcs into
\* position 0 are never excluded by cands, and arcs touching padding always are.
C8_CandsRestrictTrees ==
    (crf = "CRFDependency" /\ pc = "done" /\ cands # None) =>
        \A b \in Batch :
            /\ s_c[0][LenOf(b)][b] = PartitionValue(LenOf(b), b)
            /\ \A h \in Pos, d \in Pos :
                arc[h][d][b] # NegInf <=>
                    /\ h <= LenOf(b) /\ d <= LenOf(b)
                    /\ (d = 0 \/ cands[b][d] < 0 \/ cands[b][d] = h)

C8_Witness ==
    /\ crf = "CRFDependency" /\ pc = "done" /\ cands # None
    /\ LenOf(0) = 3
    /\ cands[0][1] = 2 /\ cands[0][2] = -1 /\ cands[0][3] = -1
    /\ s_c[0][3][0] > NegInf
    /\ s_c[0][3][0] < SumOver([h \in Trees[3] |-> TreeWeight(h, 3, 0)], Trees[3])

\* target gives every word of every sentence a head, and the heads form a tree
ValidTarget ==
    \A b \in Batch :
        ValidTree([d \in 1 .. LenOf(b) |-> target[b][d]], LenOf(b))

\* the other setting of partial
otherMode == IF f_partial = "true" THEN "false" ELSE "true"

\* C9: when target is a valid tree of every sentence, CRFDependency.forward
\* returns the same loss with partial=True as with partial=False, its gold score
\* being the sum of the scores at the gold heads of the words; the loss is 0 when
\* no sentence has another tree.
C9_PartialEqualsFull ==
    (crf = "CRFDependency" /\ target # None /\ ValidTarget) =>
        \A i \in 1 .. Len(results) :
            /\ results[i].kind = "pair"
            /\ results[i].loss =
                   forwardDep(scores, mask, target, "false", otherMode, FALSE).loss
            /\ results[i].loss.score = goldArcs(scores, mask, target)
            /\ (\A b \in Batch : Cardinality(Trees[LenOf(b)]) = 1) =>
                   results[i].loss.logZ = results[i].loss.score

C9_Witness ==
    /\ crf = "CRFDependency" /\ f_partial = "true" /\ target # None /\ ValidTarget
    /\ LenOf(0) = 3 /\ target[0][3] = 1
    /\ Len(results) >= 1
    /\ results[1].loss.score > 1
    /\ results[1].loss.logZ > results[1].loss.score

\* the stripe elements that stand for table index <<i, j>>
ViewOf(i, j) ==
    {rk \in (0 .. st_args.n - 1) \X (0 .. st_args.w - 1) :
        tableIndex(st_args, rk[1], rk[2]) = <<i, j>>}

C11_Reentrant ==
    \A i \in 1 .. Len(results) : \A j \in 1 .. Len(results) :
        results[i] = results[j]

\* the width of the span of table entry [i][j]
SpanWidth(i, j) == IF j >= i THEN j - i ELSE i - j

\* table x with every entry of width >= from replaced by another value
Perturbed(x, from) ==
    [i \in Pos |-> [j \in Pos |-> [b \in Batch |->
        IF SpanWidth(i, j) >= from THEN x[i][j][b] + 1 ELSE x[i][j][b]]]]

\* tables x and y hold the same values on the two diagonals of width d
SameOnWidth(x, y, d) ==
    \A i \in Pos, j \in Pos, b \in Batch :
        SpanWidth(i, j) = d => x[i][j][b] = y[i][j][b]

\* tables x and y hold the same values on the diagonal off: the entries [i][i + off]
SameOnDiagonal(x, y, off) ==
    \A i \in Pos, j \in Pos, b \in Batch :
        j - i = off => x[i][j][b] = y[i][j][b]

\* tables x and y hold the same values off the two diagonals of width d
SameOffWidth(x, y, d) ==
    \A i \in Pos, j \in Pos, b \in Batch :
        SpanWidth(i, j) # d => x[i][j][b] = y[i][j][b]

\* C12: the iterations of CRFDependency.inside run in increasing w; iteration
\* w writes only the entries of width w of s_i and s_c; what it writes does not
\* depend on any entry of width >= w the tables held before it, and within it
\* the diagonals stepCl and stepCr write depend on s_c only at widths < w and
\* on s_i only at widths <= w, the width-w entries of s_i being the ones stepI
\* has just written.
C12_WidthOrder ==
    [][(crf = "CRFDependency" /\ pc = "loop" /\ w' # w) =>
        LET lens == lensOf(mask)
            si1 == stepI(s_i, s_c, arc, w)
            sc1 == stepCl(si1, s_c, w)
            any == iteration(Perturbed(s_i, w), Perturbed(s_c, w), arc, lens, w)
        IN  /\ w' = w + 1
            /\ SameOffWidth(s_i', s_i, w) /\ SameOffWidth(s_c', s_c, w)
            /\ SameOnWidth(s_i', any[1], w) /\ SameOnWidth(s_c', any[2], w)
            /\ SameOnWidth(si1, s_i', w)
            /\ SameOnWidth(stepI(Perturbed(s_i, 0), Perturbed(s_c, w), arc, w), si1, w)
            /\ SameOnDiagonal(stepCl(Perturbed(si1, w + 1), Perturbed(s_c, w), w), s_c', -w)
            /\ SameOnDiagonal(rootMask(stepCr(Perturbed(si1, w + 1), Perturbed(sc1, w), w),
                                       lens, w), s_c', w)
    ]_vars

C12_Witness ==
    /\ crf = "CRFDependency" /\ pc = "loop" /\ w = seq_len - 1
    /\ scores = genericScores(1) /\ cands = None
    /\ s_i[2][0][0] > One /\ s_c[1][3][0] > One
    /\ s_c[0][3][0] = NegInf /\ s_i[3][0][0] = NegInf

\* C13: when every sibling score is zero, CRF2oDependency.inside leaves in
\* s_c[0, L] of every sentence what CRFDependency.inside leaves there for the
\* same arc scores, mask and cands: the total weight of the single-root
\* projective trees of the sentence.
C13_SecondOrderReduces ==
    (crf = "CRF2oDependency" /\ pc = "done" /\ s_sib = sibScores(0)) =>
        \A b \in Batch :
            /\ s_c[0][LenOf(b)][b] = inside(scores, mask, cands)[2][0][LenOf(b)][b]
            /\ s_c[0][LenOf(b)][b] = PartitionValue(LenOf(b), b)

C13_Witness ==
    /\ crf = "CRF2oDependency" /\ pc = "done" /\ s_sib = sibScores(0)
    /\ scores = genericScores(1) /\ cands = None
    /\ LenOf(0) = 3
    /\ s_c[0][3][0] = inside(scores, mask, cands)[2][0][3][0]
    /\ s_c[0][3][0] > Cardinality(Trees[3])

====
